---- MODULE Spec2Model ----
(***************************************************************************)
(* AutoModeService (app/electron/auto-mode-service.js): the periodic       *)
(* admission loop, the runningFeatures registry and the per-feature runs   *)
(* (startFeatureAsync, runFeature, resumeFeature, followUpFeature,         *)
(* verifyFeature, commitFeature), as a state machine.                      *)
(*                                                                         *)
(* JavaScript runs each handler to its next `await` without interruption,  *)
(* so one action is the code between two awaits of one handler.  A store   *)
(* call (loadFeatures, updateFeatureStatus) takes effect in the action     *)
(* that resumes after it, except the final status write of a run, which    *)
(* is visible in the store before the run resumes and releases its handle  *)
(* (pc "write", then pc "release").                                        *)
(*                                                                         *)
(* What a call returns or throws is not kept in the state: it is read off  *)
(* the step.  The lifecycle event a step sends to the renderer is kept     *)
(* until the next step.  analyzeProject, which the scheduler's claims do   *)
(* not involve, is left out.  getBlockingDependencies, which the service   *)
(* never calls, has a specification of its own (ResolverSpec), and so has  *)
(* one tick's selection over a store of three features (AdmissionSpec).    *)
(***************************************************************************)
EXTENDS Integers, Sequences, FiniteSets, Bags, TLC

\* ---------------------------------------------------------------- bounds
NumItems == 2
MaxTasks == 2
MaxOps == 3
MaxPendingTicks == 2
MaxConcurrencyArg == 2
NumStoreItems == 3
MaxEdits == 1

\* ------------------------------------------------------ program constants
DefaultMaxConcurrency == 3
maxAttempts == 3

\* ------------------------------------------------------------- the store
\* Features in the store's natural order: 1, 2, ..., NumItems.
Items == 1..NumItems

Absent == "absent"
Status == {"backlog", "in_progress", "waiting_approval", "verified", "completed"}

\* Item 1 declares a dependency on item 2; item 2 is the one with skipTests.
Dependencies == [i \in Items |-> IF i = 1 THEN {2} ELSE {}]
SkipTests == [i \in Items |-> i = 2]

Kinds == {"auto", "run", "resume", "followUp", "verify", "commit"}

VARIABLES
  features,          \* the store: item id -> status, or Absent
  runningFeatures,   \* this.runningFeatures: the ids that hold a handle
  autoLoopRunning,   \* this.autoLoopRunning
  maxConcurrency,    \* this.maxConcurrency
  ticks,             \* bag of availableSlots of the ticks awaiting loadFeatures
  tasks,             \* bag of the runs in flight
  ops,               \* number of calls, store edits and controllers so far
  parked,            \* history: what became of an item after a failed resume
  intervals,         \* number of live setInterval timers (this.autoLoopInterval)
  published,         \* the lifecycle event the last step sent to the renderer
  resolver,          \* a call of getBlockingDependencies: arguments and result
  admission          \* ticks of checkAndStartFeatures over a store of its own

vars == <<features, runningFeatures, autoLoopRunning, maxConcurrency, ticks,
          tasks, ops, parked, intervals, published, resolver, admission>>

\* ------------------------------------------------------------- helpers
One(t) == SetToBag({t})
Live == BagToSet(tasks)
NumTasks == BagCardinality(tasks)
NumTicks == BagCardinality(ticks)

\* A run: the item, the handler that started it, where the handler stands,
\* the last RunResult, resumeFeature's `attempts`, the calls of the executor
\* so far, whether the execution object this run registered is still the
\* entry of its id, and that object's abortController: null, set, or set and
\* aborted.
NewTask(i, k) ==
  [id |-> i, kind |-> k, pc |-> "start", res |-> "none", attempts |-> 0,
   calls |-> 0, owns |-> TRUE, abort |-> "null"]

\* Removing or replacing the entry of an id leaves the runs of that id
\* without an entry of their own.
Disown(B, S) ==
  LET D(t) == IF t.id \in S THEN [t EXCEPT !.owns = FALSE] ELSE t
      elems == {D(t) : t \in BagToSet(B)}
      N(u) == (IF u \in BagToSet(B) THEN CopiesIn(u, B) ELSE 0)
              + (IF u.id \in S /\ ~u.owns /\ [u EXCEPT !.owns = TRUE] \in BagToSet(B)
                 THEN CopiesIn([u EXCEPT !.owns = TRUE], B) ELSE 0)
  IN  [u \in elems |-> N(u)]

\* if (execution.abortController) execution.abortController.abort(), for the
\* entries of the ids in S
SignalOne(t, S) ==
  IF t.id \in S /\ t.owns /\ t.abort = "set" THEN [t EXCEPT !.abort = "aborted"]
  ELSE t
Aborted(B, S) ==
  LET elems == {SignalOne(t, S) : t \in BagToSet(B)}
      From(u) == {t \in BagToSet(B) : SignalOne(t, S) = u}
  IN  [u \in elems |-> BagCardinality([t \in From(u) |-> CopiesIn(t, B)])]

\* sendToRenderer({type: "auto_mode_feature_start" | "auto_mode_feature_complete"
\* | "auto_mode_error", featureId})
NoEvent == <<>>
Event(type, i) == <<type, i>>

\* no call of the dependency resolver is under way
NotCalled ==
  [dependencies |-> {}, allFeatures |-> [i \in Items |-> Absent],
   returned |-> FALSE, blocking |-> {}]

\* A store of NumStoreItems features, in the store's order, each but the last
\* declaring a dependency on the next.
StoreItems == 1..NumStoreItems
StoreDependencies == [i \in StoreItems |-> IF i < NumStoreItems THEN {i + 1} ELSE {}]

\* no tick over that store is under way
NotTicking ==
  [features |-> [i \in StoreItems |-> "backlog"], runningFeatures |-> {},
   maxConcurrency |-> DefaultMaxConcurrency, edits |-> 0, unblocked |-> {},
   ticked |-> FALSE, started |-> {}]

\* ---------------------------------------------------------------- Init
Init ==
  /\ features = [i \in Items |-> "backlog"]
  /\ runningFeatures = {}
  /\ autoLoopRunning = FALSE
  /\ maxConcurrency = DefaultMaxConcurrency
  /\ ticks = EmptyBag
  /\ tasks = EmptyBag
  /\ ops = 0
  /\ parked = [i \in Items |-> "clear"]
  /\ intervals = 0
  /\ published = NoEvent
  /\ resolver = NotCalled
  /\ admission = NotTicking

\* ------------------------------------------------- the registry (a Map)
\* this.runningFeatures.has(featureId)
Has(i) == i \in runningFeatures
\* this.runningFeatures.set(featureId, execution)
Registered(i) == runningFeatures \cup {i}
\* faulty variant: deleting an id that has no entry empties the map
DeletedOrReset(i) == IF i \in runningFeatures THEN runningFeatures \ {i} ELSE {}

\* this.runningFeatures.delete(featureId)
Deleted(i) == runningFeatures \ {i}

\* ------------------------------------------------- the external store
\* loadFeatures(...).find((f) => f.id === featureId)
Found(i) == features[i] # Absent
\* updateFeatureStatus(id, status), for an id the store holds
Updated(i, s) == [features EXCEPT ![i] = s]

\* A human edits the store: resets an item to backlog, marks it completed or
\* deletes it.
ExternalEdit(i, s) ==
  /\ ops < MaxOps
  /\ Found(i)
  /\ s \in {"backlog", "completed", Absent}
  /\ features[i] # s
  /\ features' = Updated(i, s)
  /\ ops' = ops + 1
  /\ parked' = IF s = "backlog" THEN [parked EXCEPT ![i] = "clear"] ELSE parked
  /\ published' = NoEvent
  /\ UNCHANGED <<runningFeatures, autoLoopRunning, maxConcurrency, ticks, tasks, intervals,
                 resolver, admission>>

\* ------------------------------------------------- the admission loop
\* const availableSlots = this.maxConcurrency - currentRunningCount
AvailableSlots(mc) == mc - Cardinality(runningFeatures)

\* checkAndStartFeatures up to its await of loadFeatures: a tick with no free
\* slot returns, any other waits for the store with its availableSlots.
TickBegun(mc) ==
  IF AvailableSlots(mc) <= 0 THEN ticks ELSE ticks (+) One(AvailableSlots(mc))

\* maxConcurrency || 3
ConcurrencyOf(m) == IF m = 0 THEN DefaultMaxConcurrency ELSE m

\* faulty variant: start() goes on although the loop is running
StartAgain ==
  /\ autoLoopRunning
  /\ ops < MaxOps
  /\ NumTicks < MaxPendingTicks
  /\ \E m \in 1..MaxConcurrencyArg :
       /\ maxConcurrency' = ConcurrencyOf(m)
       /\ ticks' = TickBegun(ConcurrencyOf(m))
  /\ intervals' = intervals + 1
  /\ ops' = ops + 1
  /\ published' = NoEvent
  /\ UNCHANGED <<features, runningFeatures, autoLoopRunning, tasks, parked,
                 resolver, admission>>

\* start({maxConcurrency}) while the loop runs: throws, "already running"
StartRejected ==
  /\ autoLoopRunning
  /\ UNCHANGED vars

\* start({maxConcurrency}): sets the loop state and, in runPeriodicLoop, makes
\* the initial check at once and sets the interval timer.
Start(m) ==
  /\ ~autoLoopRunning
  /\ ops < MaxOps
  /\ NumTicks < MaxPendingTicks
  /\ autoLoopRunning' = TRUE
  /\ maxConcurrency' = ConcurrencyOf(m)
  /\ ticks' = TickBegun(ConcurrencyOf(m))
  /\ intervals' = intervals + 1
  /\ ops' = ops + 1
  /\ published' = NoEvent
  /\ UNCHANGED <<features, runningFeatures, tasks, parked,
                 resolver, admission>>

\* faulty variant: stop() aborts the executions but keeps their entries
StopKeepsEntries ==
  /\ ops < MaxOps
  /\ autoLoopRunning' = FALSE
  /\ tasks' = Aborted(tasks, Items)
  /\ intervals' = IF intervals > 0 THEN intervals - 1 ELSE 0
  /\ ops' = ops + 1
  /\ published' = NoEvent
  /\ UNCHANGED <<features, runningFeatures, maxConcurrency, ticks, parked,
                 resolver, admission>>

\* stop(): clears the loop flag and the timer, aborts and clears every handle.
Stop ==
  /\ ops < MaxOps
  /\ autoLoopRunning' = FALSE
  /\ runningFeatures' = {}
  /\ tasks' = Disown(Aborted(tasks, Items), Items)
  /\ intervals' = IF intervals > 0 THEN intervals - 1 ELSE 0
  /\ ops' = ops + 1
  /\ published' = NoEvent
  /\ UNCHANGED <<features, maxConcurrency, ticks, parked,
                 resolver, admission>>

\* the setInterval callback, which exists from start() to stop(); a tick
\* that finds no free slot returns at once
TimerTick ==
  /\ intervals > 0
  /\ autoLoopRunning
  /\ AvailableSlots(maxConcurrency) > 0
  /\ NumTicks < MaxPendingTicks
  /\ ticks' = TickBegun(maxConcurrency)
  /\ published' = NoEvent
  /\ UNCHANGED <<features, runningFeatures, autoLoopRunning, maxConcurrency,
                 tasks, ops, parked, intervals,
                 resolver, admission>>

\* faulty variant: the filter lets in_progress items through as well
IsBacklogOrInProgress(i) == features[i] \in {"backlog", "in_progress"}

\* faulty variant: the filter lets items awaiting approval through as well
IsBacklogOrWaitingApproval(i) == features[i] \in {"backlog", "waiting_approval"}

\* features.filter((f) => f.status === "backlog"), in store order
IsBacklog(i) == features[i] = "backlog"
BacklogFeatures == {i \in Items : IsBacklog(i)}

\* backlogFeatures.slice(0, availableSlots)
FeaturesToStart(k) ==
  {i \in BacklogFeatures : Cardinality({j \in BacklogFeatures : j < i}) < k}

\* startFeatureAsync up to its first await, for each feature of the slice in
\* turn: one that holds a handle is skipped, any other is registered.
Admitted(k) == {i \in FeaturesToStart(k) : ~Has(i)}

\* checkAndStartFeatures after loadFeatures returned
TickAdmit(k) ==
  /\ BagIn(k, ticks)
  /\ NumTasks + Cardinality(Admitted(k)) <= MaxTasks
  /\ ticks' = ticks (-) One(k)
  /\ runningFeatures' = runningFeatures \cup Admitted(k)
  /\ tasks' = tasks (+) SetToBag({NewTask(i, "auto") : i \in Admitted(k)})
  /\ published' = NoEvent
  /\ UNCHANGED <<features, autoLoopRunning, maxConcurrency, ops, parked, intervals,
                 resolver, admission>>

\* faulty variant: a failed load ends the loop
TickLoadFailStopsLoop(k) ==
  /\ BagIn(k, ticks)
  /\ ticks' = ticks (-) One(k)
  /\ autoLoopRunning' = FALSE
  /\ intervals' = 0
  /\ published' = NoEvent
  /\ UNCHANGED <<features, runningFeatures, maxConcurrency, tasks, ops, parked,
                 resolver, admission>>

\* loadFeatures throws: caught and logged by checkAndStartFeatures
TickLoadFail(k) ==
  /\ BagIn(k, ticks)
  /\ ticks' = ticks (-) One(k)
  /\ published' = NoEvent
  /\ UNCHANGED <<features, runningFeatures, autoLoopRunning, maxConcurrency,
                 tasks, ops, parked, intervals,
                 resolver, admission>>

\* ------------------------------------------------- the boundary calls
\* runFeature, verifyFeature, resumeFeature and followUpFeature begin with
\* if (this.runningFeatures.has(featureId)) throw "already running"
Rejected(i, k) ==
  /\ k \in {"run", "verify", "resume", "followUp"}
  /\ Has(i)
  /\ UNCHANGED vars

\* faulty variant: followUpFeature leaves the registration to the work it
\* starts in the background
ReserveFollowUpLate(i, k) ==
  /\ k \in {"run", "verify", "resume", "followUp"}
  /\ ~Has(i)
  /\ ops < MaxOps
  /\ NumTasks < MaxTasks
  /\ runningFeatures' = IF k = "followUp" THEN runningFeatures ELSE Registered(i)
  /\ tasks' = tasks (+) One([NewTask(i, k) EXCEPT !.owns = k # "followUp"])
  /\ ops' = ops + 1
  /\ published' = NoEvent
  /\ UNCHANGED <<features, autoLoopRunning, maxConcurrency, ticks, parked, intervals,
                 resolver, admission>>

\* faulty variant: the has() check is missing and the entry is overwritten
ReserveUnchecked(i, k) ==
  /\ k \in {"run", "verify", "resume", "followUp"}
  /\ ops < MaxOps
  /\ NumTasks < MaxTasks
  /\ runningFeatures' = Registered(i)
  /\ tasks' = Disown(tasks, {i}) (+) One(NewTask(i, k))
  /\ ops' = ops + 1
  /\ published' = NoEvent
  /\ UNCHANGED <<features, autoLoopRunning, maxConcurrency, ticks, parked, intervals,
                 resolver, admission>>

\* ... and otherwise register a new execution before their first await.
\* followUpFeature then returns success; the others return when the run ends.
Reserve(i, k) ==
  /\ k \in {"run", "verify", "resume", "followUp"}
  /\ ~Has(i)
  /\ ops < MaxOps
  /\ NumTasks < MaxTasks
  /\ runningFeatures' = Registered(i)
  /\ tasks' = tasks (+) One(NewTask(i, k))
  /\ ops' = ops + 1
  /\ published' = NoEvent
  /\ UNCHANGED <<features, autoLoopRunning, maxConcurrency, ticks, parked, intervals,
                 resolver, admission>>

RunFeature(i) == Reserve(i, "run") \/ Rejected(i, "run")
VerifyFeature(i) == Reserve(i, "verify") \/ Rejected(i, "verify")
ResumeFeature(i) == Reserve(i, "resume") \/ Rejected(i, "resume")
FollowUpFeature(i) == Reserve(i, "followUp") \/ Rejected(i, "followUp")

\* commitFeature up to its first await: registers without looking
CommitFeature(i) ==
  /\ ops < MaxOps
  /\ NumTasks < MaxTasks
  /\ runningFeatures' = Registered(i)
  /\ tasks' = Disown(tasks, {i}) (+) One(NewTask(i, "commit"))
  /\ ops' = ops + 1
  /\ published' = NoEvent
  /\ UNCHANGED <<features, autoLoopRunning, maxConcurrency, ticks, parked, intervals,
                 resolver, admission>>

\* stopFeature for an id that holds no handle: returns success false
StopRejected(i) ==
  /\ ~Has(i)
  /\ UNCHANGED vars

\* faulty variant: stopFeature() deletes the entry without aborting it
StopFeatureNoSignal(i) ==
  /\ Has(i)
  /\ ops < MaxOps
  /\ runningFeatures' = Deleted(i)
  /\ tasks' = Disown(tasks, {i})
  /\ ops' = ops + 1
  /\ published' = NoEvent
  /\ UNCHANGED <<features, autoLoopRunning, maxConcurrency, ticks, parked, intervals,
                 resolver, admission>>

\* stopFeature({featureId}): aborts and deletes the entry
StopFeature(i) ==
  /\ Has(i)
  /\ ops < MaxOps
  /\ runningFeatures' = Deleted(i)
  /\ tasks' = Disown(Aborted(tasks, {i}), {i})
  /\ ops' = ops + 1
  /\ published' = NoEvent
  /\ UNCHANGED <<features, autoLoopRunning, maxConcurrency, ticks, parked, intervals,
                 resolver, admission>>

\* ------------------------------------------------- the runs
\* faulty variant: a failing run takes every entry with it
ThrownClearsRegistry(t) ==
  /\ runningFeatures' = {}
  /\ tasks' = Disown(tasks (-) One(t), Items)
  /\ published' = Event("error", t.id)

\* the catch and finally blocks of a run: the error event is published, the
\* error rethrown to an awaiting caller, the entry of the id deleted
Thrown(t) ==
  /\ runningFeatures' = Deleted(t.id)
  /\ tasks' = Disown(tasks (-) One(t), {t.id})
  /\ published' = Event("error", t.id)

\* the executor is called: implementFeature, resumeFeatureWithContext,
\* verifyFeatureTests or commitChangesOnly
Invoked(t) == [t EXCEPT !.pc = "exec", !.calls = t.calls + 1]

\* startFeatureAsync, runFeature and runFollowUpWork mark the item
\* in_progress before they call the executor; the others do not.
Marks(t) == t.kind \in {"auto", "run", "followUp"}

\* faulty variant: the executor is called without looking the item up
TaskStartUnchecked(t) ==
  /\ t.pc = "start"
  /\ features' = IF Marks(t) /\ Found(t.id) THEN Updated(t.id, "in_progress")
                 ELSE features
  /\ tasks' = (tasks (-) One(t)) (+) One(Invoked(t))
  /\ published' = Event("start", t.id)
  /\ UNCHANGED <<runningFeatures, autoLoopRunning, maxConcurrency, ticks, ops,
                 parked, intervals, resolver, admission>>

\* From the registration to the call of the executor: the item is looked up
\* (in startFeatureAsync: written), marked in_progress and announced with a
\* start event.  An item the store does not hold ends the run with an error.
TaskStart(t) ==
  /\ t.pc = "start"
  /\ IF ~Found(t.id)
     THEN /\ Thrown(t)
          /\ UNCHANGED features
     ELSE /\ features' = IF Marks(t) THEN Updated(t.id, "in_progress") ELSE features
          /\ tasks' = (tasks (-) One(t)) (+) One(Invoked(t))
          /\ published' = Event("start", t.id)
          /\ UNCHANGED runningFeatures
  /\ UNCHANGED <<autoLoopRunning, maxConcurrency, ticks, ops, parked, intervals,
                 resolver, admission>>

\* The executor, while it runs, may store an AbortController in the execution
\* object it was given (execution.abortController, null until then).  The
\* service reads the controller of registry entries only, so that of an
\* execution which is no longer an entry is not followed.
ControllerSet(t) ==
  /\ t.pc = "exec"
  /\ t.owns
  /\ t.abort = "null"
  /\ ops < MaxOps
  /\ tasks' = (tasks (-) One(t)) (+) One([t EXCEPT !.abort = "set"])
  /\ ops' = ops + 1
  /\ published' = NoEvent
  /\ UNCHANGED <<features, runningFeatures, autoLoopRunning, maxConcurrency,
                 ticks, parked, intervals,
                 resolver, admission>>

\* faulty variant: the loop has no bound
RetryAllowedAlways(t) == t.kind = "resume"

\* faulty variant: the loop's bound is off by one
RetryAllowedOffByOne(t) == t.kind = "resume" /\ t.attempts <= maxAttempts

\* while (!finalResult.passes && attempts < maxAttempts)
RetryAllowed(t) == t.kind = "resume" /\ t.attempts < maxAttempts

\* where a run goes when its executor returned the RunResult r
Returned(t, r) ==
  IF r = "fail" /\ RetryAllowed(t)
  THEN [t EXCEPT !.pc = "reread", !.res = r]
  ELSE [t EXCEPT !.pc = "write", !.res = r]

\* The executor returns a RunResult (passes or not) or raises an error.
\* commitChangesOnly returns no result: it returns or raises.
ExecReturn(t, r) ==
  /\ t.pc = "exec"
  /\ r \in (IF t.kind = "commit" THEN {"pass", "throw"} ELSE {"pass", "fail", "throw"})
  /\ IF r = "throw"
     THEN Thrown(t)
     ELSE /\ tasks' = (tasks (-) One(t)) (+) One(Returned(t, r))
          /\ published' = NoEvent
          /\ UNCHANGED runningFeatures
  /\ UNCHANGED <<features, autoLoopRunning, maxConcurrency, ticks, ops, parked, intervals,
                 resolver, admission>>

\* faulty variant: any feature that is still in the store is retried
StillThere(i) == features[i] # Absent

\* updatedFeature && updatedFeature.status === "in_progress"
StillInProgress(i) == features[i] = "in_progress"

\* the body of resumeFeature's retry loop, after its loadFeatures: another
\* attempt, announced with a progress event, or the end of the loop
Reread(t) ==
  /\ t.pc = "reread"
  /\ tasks' = (tasks (-) One(t))
              (+) One(IF StillInProgress(t.id)
                      THEN Invoked([t EXCEPT !.attempts = t.attempts + 1])
                      ELSE [t EXCEPT !.pc = "write"])
  /\ published' = NoEvent
  /\ UNCHANGED <<features, runningFeatures, autoLoopRunning, maxConcurrency,
                 ticks, ops, parked, intervals,
                 resolver, admission>>

\* faulty variant: skipTests is ignored
PassStatusIgnoresSkipTests(i) == "verified"

\* newStatus of a run that ended with a RunResult
PassStatus(i) == IF SkipTests[i] THEN "waiting_approval" ELSE "verified"

\* faulty variant: a failed fresh run stays in_progress, as a failed resume does
NewStatusNoRequeue(t) ==
  CASE t.kind \in {"auto", "run", "resume", "followUp"} ->
         IF t.res = "pass" THEN PassStatus(t.id) ELSE "in_progress"
    [] t.kind = "verify" ->
         IF t.res = "pass" THEN "verified" ELSE "in_progress"
    [] t.kind = "commit" -> "verified"

\* faulty variant: a commit leaves the item waiting for approval
NewStatusCommitUnverified(t) ==
  CASE t.kind \in {"auto", "run"} ->
         IF t.res = "pass" THEN PassStatus(t.id) ELSE "backlog"
    [] t.kind \in {"resume", "followUp"} ->
         IF t.res = "pass" THEN PassStatus(t.id) ELSE "in_progress"
    [] t.kind = "verify" ->
         IF t.res = "pass" THEN "verified" ELSE "in_progress"
    [] t.kind = "commit" -> "waiting_approval"

NewStatus(t) ==
  CASE t.kind \in {"auto", "run"} ->
         IF t.res = "pass" THEN PassStatus(t.id) ELSE "backlog"
    [] t.kind \in {"resume", "followUp"} ->
         IF t.res = "pass" THEN PassStatus(t.id) ELSE "in_progress"
    [] t.kind = "verify" ->
         IF t.res = "pass" THEN "verified" ELSE "in_progress"
    [] t.kind = "commit" -> "verified"

\* history: a failed resume or follow-up parks the item; an edit from outside
\* that resets it to backlog clears that (ExternalEdit); a failed fresh run
\* of a parked item requeues it.
Park(t) ==
  IF t.kind \in {"resume", "followUp"} /\ t.res = "fail"
  THEN [parked EXCEPT ![t.id] = "parked"]
  ELSE IF t.kind \in {"auto", "run"} /\ t.res = "fail" /\ parked[t.id] # "clear"
       THEN [parked EXCEPT ![t.id] = "requeued"]
       ELSE parked

\* the final updateFeatureStatus of a run reaches the store
Write(t) ==
  /\ t.pc = "write"
  /\ IF ~Found(t.id)
     THEN /\ Thrown(t)
          /\ UNCHANGED <<features, parked>>
     ELSE /\ features' = Updated(t.id, NewStatus(t))
          /\ parked' = Park(t)
          /\ tasks' = (tasks (-) One(t)) (+) One([t EXCEPT !.pc = "release"])
          /\ published' = NoEvent
          /\ UNCHANGED runningFeatures
  /\ UNCHANGED <<autoLoopRunning, maxConcurrency, ticks, ops, intervals,
                 resolver, admission>>

\* faulty variant: the finally block's delete is missing
FinishKeepsEntry(t) ==
  /\ t.pc = "release"
  /\ tasks' = tasks (-) One(t)
  /\ published' = Event("complete", t.id)
  /\ UNCHANGED <<features, runningFeatures, autoLoopRunning, maxConcurrency,
                 ticks, ops, parked, intervals,
                 resolver, admission>>

\* faulty variant: a run ends without its complete event
FinishSilent(t) ==
  /\ t.pc = "release"
  /\ runningFeatures' = Deleted(t.id)
  /\ tasks' = Disown(tasks (-) One(t), {t.id})
  /\ published' = NoEvent
  /\ UNCHANGED <<features, autoLoopRunning, maxConcurrency, ticks, ops, parked, intervals,
                 resolver, admission>>

\* after the final write: the complete event, the return to an awaiting
\* caller, and the finally block's delete of the id
Finish(t) ==
  /\ t.pc = "release"
  /\ runningFeatures' = Deleted(t.id)
  /\ tasks' = Disown(tasks (-) One(t), {t.id})
  /\ published' = Event("complete", t.id)
  /\ UNCHANGED <<features, autoLoopRunning, maxConcurrency, ticks, ops, parked, intervals,
                 resolver, admission>>

\* ------------------------------------------------- the specification
Next ==
  \/ \E m \in 1..MaxConcurrencyArg : Start(m)
  \/ StartRejected
  \/ Stop
  \/ TimerTick
  \/ \E k \in 1..DefaultMaxConcurrency : TickAdmit(k)
  \/ \E k \in 1..DefaultMaxConcurrency : TickLoadFail(k)
  \/ \E i \in Items : RunFeature(i)
  \/ \E i \in Items : VerifyFeature(i)
  \/ \E i \in Items : ResumeFeature(i)
  \/ \E i \in Items : FollowUpFeature(i)
  \/ \E i \in Items : CommitFeature(i)
  \/ \E i \in Items : StopFeature(i)
  \/ \E i \in Items : StopRejected(i)
  \/ \E i \in Items, s \in Status \cup {Absent} : ExternalEdit(i, s)
  \/ \E t \in Live : TaskStart(t)
  \/ \E t \in Live : ControllerSet(t)
  \/ \E t \in Live, r \in {"pass", "fail", "throw"} : ExecReturn(t, r)
  \/ \E t \in Live : Reread(t)
  \/ \E t \in Live : Write(t)
  \/ \E t \in Live : Finish(t)

Spec == Init /\ [][Next]_vars

TypeOK ==
  /\ features \in [Items -> Status \cup {Absent}]
  /\ runningFeatures \subseteq Items
  /\ autoLoopRunning \in BOOLEAN
  /\ maxConcurrency \in 1..DefaultMaxConcurrency
  /\ IsABag(ticks) /\ IsABag(tasks)
  /\ NumTasks <= MaxTasks /\ NumTicks <= MaxPendingTicks
  /\ intervals \in 0..1
  /\ \A t \in Live : t.kind \in Kinds /\ t.id \in Items /\ t.attempts \in 0..maxAttempts
  /\ \A t \in Live : t.abort \in {"null", "set", "aborted"}
  /\ \A t \in Live : t.abort = "aborted" => ~t.owns
  /\ published \in {NoEvent} \cup ({"start", "complete", "error"} \X Items)
  /\ resolver.blocking \subseteq resolver.dependencies
  /\ admission.started \subseteq admission.runningFeatures
  /\ admission.runningFeatures \subseteq StoreItems
  /\ \A i \in Items : Has(i) <=> \E t \in Live : t.id = i /\ t.owns
  /\ \A i \in Items : Cardinality({t \in Live : t.id = i /\ t.owns}) <= 1

\* The stores' writes and reads end: a run that holds the entry of its id and
\* waits for the store goes on.  Nothing makes an executor return.
Continue(i) ==
  \E t \in Live : t.id = i /\ t.owns /\ (TaskStart(t) \/ Reread(t) \/ Write(t) \/ Finish(t))

FairSpec == Spec /\ \A i \in Items : WF_vars(Continue(i))

\* Every executor call returns or raises, and every store operation ends:
\* each run goes on, whether or not it still holds the entry of its id.  The
\* runs are separate promise chains, so the progress of one run of an id is
\* not made by another run of that id: fairness is per id and entry point.
Advance(i, k) ==
  \E t \in Live :
    /\ t.id = i
    /\ t.kind = k
    /\ \/ TaskStart(t)
       \/ \E r \in {"pass", "fail", "throw"} : ExecReturn(t, r)
       \/ Reread(t)
       \/ Write(t)
       \/ Finish(t)

TerminatingSpec == Spec /\ \A i \in Items : \A k \in Kinds : WF_vars(Advance(i, k))

\* The loop at work: the interval timer fires while it exists, the loads of
\* the ticks end and do not fail for ever, and every run goes on as in
\* TerminatingSpec.
LoopSpec ==
  /\ Spec
  /\ WF_vars(TimerTick)
  /\ \A k \in 1..DefaultMaxConcurrency : SF_vars(TickAdmit(k))
  /\ \A i \in Items : \A k \in Kinds : WF_vars(Advance(i, k))

\* ------------------------------------------------- the dependency resolver
\* faulty variant: waiting_approval satisfies a dependency too
getBlockingDependenciesLax(deps, allFeatures) ==
  {d \in deps : /\ allFeatures[d] # Absent
                /\ allFeatures[d] \notin {"verified", "completed", "waiting_approval"}}

\* faulty variant: a dependency that is not in the set blocks
getBlockingDependenciesStrict(deps, allFeatures) ==
  {d \in deps : allFeatures[d] \notin {"verified", "completed"}}

\* getBlockingDependencies(feature, allFeatures), with deps the ids in
\* feature.dependencies and allFeatures the status of every id, or Absent
getBlockingDependencies(deps, allFeatures) ==
  {d \in deps : /\ allFeatures[d] # Absent
                /\ allFeatures[d] \notin {"verified", "completed"}}

\* any feature with any declared dependencies, in any set of features
ResolverInit ==
  /\ Init!1 /\ Init!2 /\ Init!3 /\ Init!4 /\ Init!5 /\ Init!6 /\ Init!7
  /\ Init!8 /\ Init!9 /\ Init!10
  /\ resolver \in [dependencies : SUBSET Items,
                    allFeatures : [Items -> Status \cup {Absent}],
                    returned : {FALSE},
                    blocking : {{}}]
  /\ admission = NotTicking

\* const blockingDeps = getBlockingDependencies(feature, features)
Resolve ==
  /\ ~resolver.returned
  /\ resolver' = [resolver EXCEPT !.returned = TRUE,
                                  !.blocking =
                    getBlockingDependencies(resolver.dependencies,
                                            resolver.allFeatures)]
  /\ UNCHANGED <<features, runningFeatures, autoLoopRunning, maxConcurrency,
                 ticks, tasks, ops, parked, intervals, published, admission>>

ResolverSpec == ResolverInit /\ [][Resolve]_vars

\* ------------------------------------------------- one tick's selection
\* features.filter((f) => f.status === "backlog"), over any set of features
backlogFeatures(fs) == {i \in DOMAIN fs : fs[i] = "backlog"}

\* backlogFeatures.slice(0, availableSlots)
featuresToStart(fs, k) ==
  {i \in backlogFeatures(fs) : Cardinality({j \in backlogFeatures(fs) : j < i}) < k}

\* checkAndStartFeatures with its startFeatureAsync calls: the features one
\* tick registers, given the features it loads, the registry and maxConcurrency
startedFeatures(fs, running, mc) ==
  LET availableSlots == mc - Cardinality(running)
  IN  IF availableSlots <= 0 THEN {}
      ELSE {i \in featuresToStart(fs, availableSlots) : i \notin running}

\* the ready features of a set of features, and the first k of them
readyFeatures(fs) ==
  {i \in backlogFeatures(fs) : getBlockingDependencies(StoreDependencies[i], fs) = {}}
firstReadyFeatures(fs, k) ==
  {i \in readyFeatures(fs) : Cardinality({j \in readyFeatures(fs) : j < i}) < k}

\* any store, any registry, any maxConcurrency
AdmissionInit ==
  /\ Init!1 /\ Init!2 /\ Init!3 /\ Init!4 /\ Init!5 /\ Init!6 /\ Init!7
  /\ Init!8 /\ Init!9 /\ Init!10 /\ Init!11
  /\ admission \in [features : [StoreItems -> Status \cup {Absent}],
                     runningFeatures : SUBSET StoreItems,
                     maxConcurrency : 1..MaxConcurrencyArg,
                     edits : {0},
                     unblocked : {{}},
                     ticked : {FALSE},
                     started : {{}}]

\* Between two ticks a feature of the store becomes verified or completed
\* (a run's final write, an approval, a commit).  unblocked: the backlog
\* features this leaves without a blocking dependency.
DependencySettled(d, s) ==
  LET fs == [admission.features EXCEPT ![d] = s]
  IN  /\ admission.edits < MaxEdits
      /\ admission.features[d] \notin {Absent, "verified", "completed"}
      /\ s \in {"verified", "completed"}
      /\ admission' =
            [admission EXCEPT
               !.features = fs,
               !.edits = admission.edits + 1,
               !.ticked = FALSE,
               !.started = {},
               !.unblocked =
                 {i \in readyFeatures(fs) :
                    getBlockingDependencies(StoreDependencies[i], admission.features) = {d}}]
      /\ UNCHANGED <<features, runningFeatures, autoLoopRunning, maxConcurrency,
                     ticks, tasks, ops, parked, intervals, published, resolver>>

\* the next tick: checkAndStartFeatures with the features it loads now
CheckAndStartFeatures ==
  /\ ~admission.ticked
  /\ admission' =
        [admission EXCEPT
           !.ticked = TRUE,
           !.started = startedFeatures(admission.features, admission.runningFeatures,
                                       admission.maxConcurrency),
           !.runningFeatures = admission.runningFeatures
                                 \cup startedFeatures(admission.features,
                                                      admission.runningFeatures,
                                                      admission.maxConcurrency)]
  /\ UNCHANGED <<features, runningFeatures, autoLoopRunning, maxConcurrency,
                 ticks, tasks, ops, parked, intervals, published, resolver>>

AdmissionNext ==
  \/ \E d \in StoreItems : \E s \in {"verified", "completed"} : DependencySettled(d, s)
  \/ CheckAndStartFeatures

AdmissionSpec == AdmissionInit /\ [][AdmissionNext]_vars

\* ------------------------------------------------- what the claims name
\* getBlockingDependencies(feature, allFeatures): the declared dependencies
\* that are in the store and neither verified nor completed
BlockingDependencies(i) == getBlockingDependencies(Dependencies[i], features)

\* ready: backlog with no blocking dependency
Ready(i) == IsBacklog(i) /\ BlockingDependencies(i) = {}
ReadyItems == {i \in Items : Ready(i)}
FirstReady(k) == {i \in ReadyItems : Cardinality({j \in ReadyItems : j < i}) < k}

\* the runs of item i whose executor is called and has not returned, among
\* those of the kinds K
InFlight(i, K) ==
  LET E == {t \in Live : t.id = i /\ t.pc = "exec" /\ t.kind \in K}
  IN  BagCardinality([t \in E |-> CopiesIn(t, tasks)])

\* this step is a tick that admits item i
AdmittedNow(i) == \E k \in 1..DefaultMaxConcurrency : TickAdmit(k) /\ i \in Admitted(k)

\* C1: the registry never holds more entries than the maxConcurrency given at
\* loop start.
C1_RegistryWithinMaxConcurrency ==
  autoLoopRunning => Cardinality(runningFeatures) <= maxConcurrency

\* C2: of the runs started by the admission loop, runOne, resumeOne and
\* followUp, at most one per item has its executor in flight.
C2_OneExecutionPerItem ==
  \A i \in Items : InFlight(i, {"auto", "run", "resume", "followUp"}) <= 1

\* C3: a runOne, resumeOne or followUp call for an id that holds a handle
\* fails and changes neither the registry, the store nor the runs; for an id
\* that holds none it registers the id for exactly one new run, so that of
\* two such calls the second finds the handle and fails.
C3_SecondReserveFails ==
  [][\A i \in Items :
       (RunFeature(i) \/ ResumeFeature(i) \/ FollowUpFeature(i)) =>
         IF Has(i)
         THEN UNCHANGED <<runningFeatures, features, tasks, intervals>>
         ELSE /\ runningFeatures' = runningFeatures \cup {i}
              /\ UNCHANGED features
              /\ BagCardinality(tasks') = BagCardinality(tasks) + 1
              /\ InFlight(i, Kinds)' = InFlight(i, Kinds)
              /\ \E t \in BagToSet(tasks') :
                   /\ t.id = i /\ t.owns /\ t.pc = "start"
                   /\ t.kind \in {"run", "resume", "followUp"}]_vars

\* C3 happens: item i holds the handle a resumeOne call reserved
C3_Witness ==
  \E t \in Live : t.kind = "resume" /\ t.owns /\ t.pc = "start" /\ Has(t.id)
                  /\ ops < MaxOps

\* C4: no tick admits an item that declares a dependency on an item of the
\* store that is neither verified nor completed.
C4_NoBlockedAdmission ==
  [][\A i \in Items : AdmittedNow(i) => BlockingDependencies(i) = {}]_vars

\* C5: a tick with k free slots admits exactly the first min(k, n) of the n
\* ready items, in store order.
C5_AdmitsFirstReady ==
  [][\A k \in 1..DefaultMaxConcurrency :
       TickAdmit(k) => runningFeatures' \ runningFeatures = FirstReady(k)]_vars

\* the run that holds the entry of item i has had its executor return
Holding(i) ==
  \E t \in Live : t.id = i /\ t.owns /\ t.pc \in {"reread", "write", "release"}
\* the run that holds the entry of item i has its executor in flight
Executing(i) == \E t \in Live : t.id = i /\ t.owns /\ t.pc = "exec"

\* C6: once the executor of the run that holds the handle of an item has
\* returned, the handle is eventually removed (or the executor is called
\* again by resumeFeature's retry loop, and the same holds of that call).
C6_HandleEventuallyRemoved ==
  \A i \in Items : Holding(i) ~> (~Has(i) \/ Executing(i))

\* C6 happens: a run holds its handle after its executor returned
C6_Witness == \E i \in Items : Holding(i) /\ Has(i)

\* C7: the final write of a fresh run (admitted or runOne) whose executor
\* returned passes = false sets the stored status to backlog.
C7_FreshFailureToBacklog ==
  [][\A t \in Live :
       (t.kind \in {"auto", "run"} /\ t.res = "fail" /\ Found(t.id) /\ Write(t))
         => features'[t.id] = "backlog"]_vars

\* C7 happens: a fresh run has written its failure
C7_Witness ==
  \E t \in Live : t.kind \in {"auto", "run"} /\ t.pc = "release" /\ t.res = "fail"
                  /\ features[t.id] = "backlog"

\* C8: the final write of a passing run (admitted, runOne, resumeOne or
\* followUp) sets the stored status to waiting_approval for an item with
\* skipTests and to verified for any other.
C8_PassingStatus ==
  [][\A t \in Live :
       (t.kind \in {"auto", "run", "resume", "followUp"} /\ t.res = "pass"
        /\ Found(t.id) /\ Write(t))
         => features'[t.id] = (IF SkipTests[t.id] THEN "waiting_approval" ELSE "verified")]_vars

\* C8 happens: a passing run of an item with skipTests and one of an item
\* without have written their status
C8_Witness ==
  /\ \E t \in Live : t.pc = "release" /\ t.res = "pass" /\ SkipTests[t.id]
                     /\ t.kind \in {"auto", "followUp"}
                     /\ features[t.id] = "waiting_approval"
  /\ \E t \in Live : t.pc = "release" /\ t.res = "pass" /\ ~SkipTests[t.id]
                     /\ t.kind \in {"run", "resume"}
                     /\ features[t.id] = "verified"

\* C9 as stated: one resumeOne call never calls the executor a fourth time.
C9_NoFourthInvocation ==
  \A t \in Live : t.kind = "resume" => t.calls <= 3

\* C9 amended: one resumeOne call calls the executor at most four times, the
\* first call and maxAttempts retries, and when the fourth result is
\* non-passing too the final write sets the stored status to in_progress.
C9_NoFifthInvocation ==
  /\ [](\A t \in Live : t.kind = "resume" => t.calls <= maxAttempts + 1)
  /\ [][\A t \in Live :
          (t.kind = "resume" /\ t.res = "fail" /\ t.calls = maxAttempts + 1
           /\ Found(t.id) /\ Write(t))
            => features'[t.id] = "in_progress"]_vars

\* C9 happens: a resume has used up its retries and written in_progress
C9_Witness ==
  \E t \in Live : t.kind = "resume" /\ t.pc = "release" /\ t.res = "fail"
                  /\ t.calls = maxAttempts + 1 /\ t.attempts = maxAttempts
                  /\ features[t.id] = "in_progress"

\* a resumeOne or followUp run that ended non-passing writes in_progress
ResumeFailureWritesInProgress ==
  \A t \in Live :
    (t.kind \in {"resume", "followUp"} /\ t.res = "fail" /\ Found(t.id) /\ Write(t))
      => features'[t.id] = "in_progress"

StartLoop(m) == Start(m) \/ StartRejected

\* C11: a call of start() while the loop is already running (it throws
\* "already running") leaves the loop flag, maxConcurrency, the interval
\* timer, the pending ticks and the registry as they were; there is never
\* more than one interval timer.
C11_StartWhileRunningRejected ==
  /\ [](intervals <= 1)
  /\ [][\A m \in 1..MaxConcurrencyArg :
          (autoLoopRunning /\ StartLoop(m)) =>
             UNCHANGED <<autoLoopRunning, maxConcurrency, intervals, ticks,
                         runningFeatures, tasks>>]_vars

C11_Witness ==
  /\ autoLoopRunning /\ intervals = 1
  /\ maxConcurrency # DefaultMaxConcurrency
  /\ runningFeatures # {}
  /\ ops < MaxOps /\ NumTicks < MaxPendingTicks

\* ---------------------------------------------------------------- C12
\* getStatus()
GetStatus ==
  [autoLoopRunning |-> autoLoopRunning,
   runningFeatures |-> runningFeatures,
   runningCount |-> Cardinality(runningFeatures)]

\* the execution of run t after stop() or stopFeature() signalled it
Signalled(t) == [t EXCEPT !.owns = FALSE, !.abort = "aborted"]

\* C12: right after stop(), getStatus() reports the loop as not running, no
\* running feature and count 0; every entry that had an abortController has
\* had it aborted; and stop() waited for no executor: every executor that
\* was running is still running.
C12_StopClearsAndSignals ==
  [][Stop =>
       /\ GetStatus' = [autoLoopRunning |-> FALSE, runningFeatures |-> {},
                        runningCount |-> 0]
       /\ \A t \in Live : (t.owns /\ t.abort = "set") =>
             CopiesIn(Signalled(t), tasks') >= CopiesIn(t, tasks)
       /\ \A t \in BagToSet(tasks') : ~(t.owns /\ t.abort = "set")
       /\ BagCardinality(tasks') = BagCardinality(tasks)
       /\ \A i \in Items : InFlight(i, Kinds)' = InFlight(i, Kinds)]_vars

C12_Witness ==
  /\ ~autoLoopRunning /\ runningFeatures = {}
  /\ \E t \in Live : t.abort = "aborted" /\ t.pc = "exec"
  /\ \E t \in Live : t.abort = "null" /\ ~t.owns /\ t.pc = "exec"

\* ---------------------------------------------------------------- C13
\* C13: between stop() and the next start() the loop admits nothing: a tick
\* registers a feature only while the loop flag is set, also when the tick
\* was waiting for loadFeatures when stop() was called.
C13_NoAdmissionAfterStop ==
  [][\A i \in Items : AdmittedNow(i) => autoLoopRunning]_vars

\* ---------------------------------------------------------------- C14
\* a call of stopFeature(), successful or not
StopOne(i) == StopFeature(i) \/ StopRejected(i)

\* C14: stopFeature(id) for an id without an entry (it returns success:
\* false) aborts nothing and changes neither the registry nor any status;
\* for an id with an entry it aborts the entry's abortController when one
\* is set, and no other's.
C14_StopFeatureSignalsOnlyItsEntry ==
  [][\A i \in Items : StopOne(i) =>
       IF ~Has(i)
       THEN UNCHANGED <<runningFeatures, features, tasks>>
       ELSE /\ \A t \in Live : (t.id = i /\ t.owns /\ t.abort = "set") =>
                  /\ CopiesIn(Signalled(t), tasks') >= 1
                  /\ CopiesIn(t, tasks') = 0
            /\ \A t \in Live : t.id # i => CopiesIn(t, tasks') = CopiesIn(t, tasks)
            /\ UNCHANGED features]_vars

C14_Witness ==
  /\ autoLoopRunning
  /\ \E t \in Live : t.abort = "aborted" /\ t.pc = "exec" /\ ~Has(t.id)
  /\ \E t \in Live : t.owns /\ t.pc = "exec"

\* ---------------------------------------------------------------- C15
\* the executions of the items other than i
Others(B, i) == {<<u, CopiesIn(u, B)>> : u \in {v \in BagToSet(B) : v.id # i}}

\* C15: when the executor of a run started by the loop raises an error, an
\* error event is published for its item, the loop flag, the timer and the
\* pending ticks stay as they are, and the entries, the statuses and the
\* runs of the other items are not touched.
C15_ExecutorErrorIsIsolated ==
  [][\A t \in Live : (t.kind = "auto" /\ ExecReturn(t, "throw")) =>
       /\ published' = Event("error", t.id)
       /\ UNCHANGED <<autoLoopRunning, intervals, ticks, features>>
       /\ runningFeatures' \ {t.id} = runningFeatures \ {t.id}
       /\ Others(tasks', t.id) = Others(tasks, t.id)]_vars

C15_Witness ==
  /\ ops = 1 /\ autoLoopRunning /\ intervals = 1
  /\ \E i \in Items :
       /\ published = Event("error", i) /\ features[i] = "in_progress" /\ ~Has(i)
       /\ \E u \in Live : u.id # i /\ u.owns /\ u.pc = "exec" /\ u.kind = "auto"

\* ---------------------------------------------------------------- C16
\* C16: a tick whose loadFeatures fails admits nothing and writes nothing,
\* and the loop goes on: the flag and the interval timer stay, so that the
\* timer fires further ticks, which read the store anew.
C16_LoadFailureSkipsTheTick ==
  /\ [](autoLoopRunning => intervals > 0)
  /\ [][\A k \in 1..DefaultMaxConcurrency : TickLoadFail(k) =>
          /\ UNCHANGED <<runningFeatures, tasks, features, autoLoopRunning,
                         maxConcurrency, intervals>>
          /\ ticks' = ticks (-) One(k)]_vars

C16_Witness ==
  /\ ops = 1 /\ autoLoopRunning /\ intervals = 1
  /\ ticks = EmptyBag /\ tasks = EmptyBag /\ runningFeatures = {}
  /\ published = NoEvent
  /\ \A i \in Items : features[i] = "backlog"

\* ---------------------------------------------------------------- C17
\* C17: when the executor raises an error, an error event is published and
\* the stored status of the item is backlog after a fresh run (started by
\* the loop or by runFeature) and in_progress after a resume run.
C17_StatusAfterExecutorError ==
  [][\A t \in Live :
       (t.kind \in {"auto", "run", "resume"} /\ Found(t.id)
          /\ ExecReturn(t, "throw")) =>
          /\ published' = Event("error", t.id)
          /\ features'[t.id] =
               (IF t.kind = "resume" THEN "in_progress" ELSE "backlog")]_vars

\* ---------------------------------------------------------------- C18
\* a run ends: its finally block runs, after the final write or after an error
Ends(t) ==
  \/ Finish(t)
  \/ TaskStart(t) /\ ~Found(t.id)
  \/ ExecReturn(t, "throw")
  \/ Write(t) /\ ~Found(t.id)

\* C18: when the id of a run has no entry left (stopFeature() or stop()
\* removed it), the delete in the run's finally block changes nothing: the
\* registry is as it was, and the run ends as any other.
C18_ReleaseWithoutEntryIsNoOp ==
  [][\A t \in Live : (~Has(t.id) /\ Ends(t)) =>
       /\ runningFeatures' = runningFeatures
       /\ BagCardinality(tasks') = BagCardinality(tasks) - 1]_vars

C18_Witness ==
  \E t \in Live : /\ ~t.owns /\ t.abort = "aborted" /\ t.pc = "release"
                   /\ ~Has(t.id) /\ runningFeatures # {}

\* ---------------------------------------------------------------- C19
\* C19: a declared dependency that is in the set of features is in the
\* result of getBlockingDependencies exactly when its status is neither
\* verified nor completed: backlog, in_progress and waiting_approval block.
C19_BlocksUnlessVerifiedOrCompleted ==
  resolver.returned =>
    \A d \in resolver.dependencies :
      resolver.allFeatures[d] # Absent =>
        (d \in resolver.blocking <=>
           resolver.allFeatures[d] \in {"backlog", "in_progress", "waiting_approval"})

C19_Witness ==
  /\ resolver.returned
  /\ \E d \in resolver.blocking : resolver.allFeatures[d] = "waiting_approval"
  /\ \E d \in resolver.dependencies \ resolver.blocking :
       resolver.allFeatures[d] = "completed"

\* ---------------------------------------------------------------- C20
\* C20: the result of getBlockingDependencies holds no id that is missing
\* from the set of features, and only declared dependencies; it is empty
\* for a feature that declares none.
C20_AbsentNeverBlocks ==
  resolver.returned =>
    /\ \A d \in resolver.blocking : resolver.allFeatures[d] # Absent
    /\ resolver.blocking \subseteq resolver.dependencies
    /\ resolver.dependencies = {} => resolver.blocking = {}

C20_Witness ==
  /\ resolver.returned
  /\ \E d \in resolver.dependencies : resolver.allFeatures[d] = Absent
  /\ \E d \in resolver.blocking : resolver.allFeatures[d] = "backlog"

\* ---------------------------------------------------------------- C21
\* C21: commitFeature(id) for an id that already has an entry is refused:
\* it leaves the registry and the runs as they are, so the entry of the run
\* that was active is neither replaced nor deleted when the commit ends.
C21_CommitRefusedWhileRunning ==
  [][\A i \in Items : (Has(i) /\ CommitFeature(i)) =>
       UNCHANGED <<runningFeatures, tasks>>]_vars

\* ---------------------------------------------------------------- C22
\* C22: when runFeature, resumeFeature or commitFeature do not find their
\* id in the features they loaded, they publish an error event, do not call
\* the executor, write no status and delete the entry of the id.
C22_NotFoundAborts ==
  [][\A t \in Live :
       (t.kind \in {"run", "resume", "commit"} /\ ~Found(t.id) /\ TaskStart(t)) =>
          /\ published' = Event("error", t.id)
          /\ UNCHANGED features
          /\ \A i \in Items : InFlight(i, Kinds)' = InFlight(i, Kinds)
          /\ BagCardinality(tasks') = BagCardinality(tasks) - 1
          /\ ~Has(t.id)']_vars

C22_Witness ==
  \E t \in Live : /\ t.kind \in {"run", "resume", "commit"} /\ t.pc = "start"
                   /\ t.owns /\ Has(t.id) /\ ~Found(t.id)

\* ---------------------------------------------------------------- C23
\* C23: in resumeFeature, after a result that does not pass, the executor is
\* called again only if the status read from the store anew is in_progress;
\* with any other status, or the feature gone, the loop ends, and the call
\* makes no further executor call.
C23_RetryOnlyWhileInProgress ==
  [][\A t \in Live :
       /\ Reread(t) =>
            IF features[t.id] = "in_progress"
            THEN InFlight(t.id, {"resume"})' = InFlight(t.id, {"resume"}) + 1
            ELSE /\ InFlight(t.id, {"resume"})' = InFlight(t.id, {"resume"})
                 /\ CopiesIn([t EXCEPT !.pc = "write"], tasks') >= 1
       /\ (t.kind = "resume" /\ t.pc \in {"write", "release"}
            /\ (Write(t) \/ Finish(t))) =>
            InFlight(t.id, {"resume"})' = InFlight(t.id, {"resume"})]_vars

C23_Witness ==
  \E t \in Live : /\ t.kind = "resume" /\ t.pc = "write" /\ t.res = "fail"
                   /\ t.calls = 2 /\ t.attempts = 1
                   /\ features[t.id] = "backlog"

\* ---------------------------------------------------------------- C24
\* a call of resumeFeature(i) is under way
Resuming(i) == \E t \in Live : t.id = i /\ t.kind = "resume"

\* C24: when executor calls and store operations end, every call of
\* resumeFeature ends; within one call the executor is called again at most
\* maxAttempts (3) times after its first call, and every call starts its
\* count of attempts at 0.
C24_ResumeTerminatesWithinBudget ==
  /\ [](\A t \in Live : t.kind = "resume" =>
          /\ t.attempts <= maxAttempts
          /\ t.calls = (IF t.pc = "start" THEN 0 ELSE t.attempts + 1))
  /\ [][\A i \in Items : Reserve(i, "resume") =>
          CopiesIn(NewTask(i, "resume"), tasks') >= 1]_vars
  /\ \A i \in Items : Resuming(i) ~> ~Resuming(i)

C24_Witness ==
  \E t \in Live : /\ t.kind = "resume" /\ t.pc = "release" /\ t.res = "pass"
                   /\ t.attempts = maxAttempts

\* C25: a run started by the admission loop, runFeature, resumeFeature or
\* followUpFeature invokes its executor with the item's stored status set to
\* in_progress.
C25_InProgressBeforeExecutor ==
  [][\A t \in Live :
       (t.kind \in {"auto", "run", "resume", "followUp"} /\ Found(t.id) /\ TaskStart(t))
         => features'[t.id] = "in_progress"]_vars

\* C26: a run writes the status it decides after its executor returned only
\* once its handle has left the registry.
C26_FinalWriteAfterRelease ==
  [][\A t \in Live : (Found(t.id) /\ Write(t)) => ~t.owns /\ ~Has(t.id)]_vars

\* C27: every item stored as in_progress (a status only the service writes)
\* holds a handle in the registry.
C27_InProgressHoldsHandle ==
  \A i \in Items : features[i] = "in_progress" => Has(i)

\* C28: a run is started by the admission loop only for an item whose status
\* in the items that tick loaded is backlog.
C28_LoopAdmitsBacklogOnly ==
  [][\A i \in Items :
       CopiesIn(NewTask(i, "auto"), tasks') > CopiesIn(NewTask(i, "auto"), tasks)
         => features[i] = "backlog"]_vars

\* C28 happens: a tick has admitted the second item of the store and left
\* the first, which is not backlog and holds no handle.
C28_Witness ==
  /\ BagIn(NewTask(2, "auto"), tasks)
  /\ features[1] \in {"in_progress", "verified", "completed"}
  /\ ~Has(1)

\* C29: when the executor of a run started by the admission loop returns a
\* failing result with retries left, the run goes through the retry loop
\* (it reads the item again, to call the executor again if the item is still
\* in_progress) before it decides the final status.
C29_AdmittedRunRetries ==
  [][\A t \in Live :
       (t.kind = "auto" /\ t.attempts < maxAttempts /\ ExecReturn(t, "fail"))
         => CopiesIn([t EXCEPT !.pc = "reread", !.res = "fail"], tasks') >= 1]_vars

\* C30: a backlog feature whose last blocking dependency became verified or
\* completed since the previous tick is started by the next tick, when it
\* holds no handle and is among the first availableSlots ready features.
C30_UnblockedAdmittedByNextTick ==
  [][CheckAndStartFeatures =>
       \A i \in admission.unblocked :
         LET k == admission.maxConcurrency - Cardinality(admission.runningFeatures)
         IN  (k > 0 /\ i \notin admission.runningFeatures
                    /\ i \in firstReadyFeatures(admission.features, k))
               => i \in admission'.started]_vars

C32_LoopAloneWithinMaxConcurrency ==
  (autoLoopRunning /\ ops = 1) => Cardinality(runningFeatures) <= maxConcurrency

\* if (this.runningFeatures.has(featureId)) throw new Error("... already running")
AlreadyRunning(i) == Has(i)

\* C33: an accepted followUp returns with its id registered and its executor
\* not yet called, and a followUp, runOne or resumeOne for a registered id
\* fails without any effect.
C33_FollowUpReturnsRegistered ==
  /\ [][\A i \in Items :
          (~Has(i) /\ FollowUpFeature(i)) =>
            /\ AlreadyRunning(i)'
            /\ CopiesIn(NewTask(i, "followUp"), tasks') >= 1
            /\ InFlight(i, Kinds)' = InFlight(i, Kinds)]_vars
  /\ [][\A i \in Items :
          (AlreadyRunning(i) /\ (FollowUpFeature(i) \/ RunFeature(i) \/ ResumeFeature(i)))
            => UNCHANGED vars]_vars

\* C33 happens: followUp has returned, its work has not reached the
\* executor, and a further call can be made.
C33_Witness ==
  \E t \in Live : /\ t = NewTask(t.id, "followUp")
                   /\ Has(t.id)
                   /\ ops < MaxOps /\ NumTasks < MaxTasks

\* the executor invocations in flight, over all items
ExecutorsInFlight ==
  LET E == {t \in Live : t.pc = "exec"}
  IN  BagCardinality([t \in E |-> CopiesIn(t, tasks)])

\* C34: the number of executor invocations in flight never exceeds
\* maxConcurrency.
C34_ExecutorsWithinMaxConcurrency == ExecutorsInFlight <= maxConcurrency

\* C35: the end of a run whose handle is no longer the entry of its id (it
\* was removed, and another run may have reserved the id since) leaves the
\* registry as it is.
C35_CleanupRemovesOwnHandleOnly ==
  [][\A t \in Live : (~t.owns /\ Ends(t)) => UNCHANGED runningFeatures]_vars

\* C36: while the loop runs, an item that is ready and holds no handle is
\* eventually admitted, unless it stops being ready or the loop is stopped.
C36_ReadyEventuallyAdmitted ==
  \A i \in Items :
    (autoLoopRunning /\ Ready(i) /\ ~Has(i)) ~> (Has(i) \/ ~Ready(i) \/ ~autoLoopRunning)

\* the backlog items that hold no handle
FreeBacklogFeatures == {i \in BacklogFeatures : ~Has(i)}

\* C37: a tick with k available slots admits min(k, n) items, n being the
\* number of backlog items that hold no handle.
C37_HeldItemsTakeNoSlot ==
  [][\A k \in 1..DefaultMaxConcurrency :
       TickAdmit(k) =>
         Cardinality(runningFeatures' \ runningFeatures) =
           IF k < Cardinality(FreeBacklogFeatures) THEN k
           ELSE Cardinality(FreeBacklogFeatures)]_vars

\* resume run t left the retry loop with retries to spare: the status it
\* read again was not in_progress
LeftLoopEarly(t) ==
  /\ t.kind = "resume" /\ t.pc = "write" /\ t.res = "fail"
  /\ t.attempts < maxAttempts

\* C38: a resume run that left its retry loop because the item was no longer
\* in_progress writes no status: the store keeps the status set from outside.
C38_ResumeKeepsExternalStatus ==
  [][\A t \in Live : (LeftLoopEarly(t) /\ Found(t.id) /\ Write(t)) => UNCHANGED features]_vars

\* a run of item i has published its start event and has not ended
Started(i) == \E t \in Live : t.id = i /\ t.pc # "start"

\* the last step published a terminal event for item i
Terminal(i) == published \in {Event("complete", i), Event("error", i)}

\* C39: a run publishes its start event when it goes on to its executor, no
\* terminal event while it is under way, and exactly one, complete or error,
\* in the step in which it ends; a complete event is published only by a run
\* that published a start event; and every run that published its start
\* event ends, its executor calls returning or raising.
C39_OneTerminalEvent ==
  /\ [][\A t \in Live :
          /\ TaskStart(t) =>
               IF Found(t.id)
               THEN published' = Event("start", t.id) /\ CopiesIn(Invoked(t), tasks') >= 1
               ELSE published' = Event("error", t.id)
          /\ ((\E r \in {"pass", "fail"} : ExecReturn(t, r)) \/ Reread(t)
                \/ (Found(t.id) /\ Write(t)) \/ ControllerSet(t))
               => /\ published' = NoEvent
                  /\ BagCardinality(tasks') = BagCardinality(tasks)
          /\ (t.pc # "start" /\ Ends(t)) =>
               /\ Terminal(t.id)'
               /\ BagCardinality(tasks') = BagCardinality(tasks) - 1
               /\ published' = Event("complete", t.id) <=> t.pc = "release"]_vars
  /\ [][\A i \in Items :
          published' = Event("complete", i) =>
            \E t \in Live : t.id = i /\ t.pc = "release" /\ Finish(t)]_vars
  /\ \A i \in Items : Started(i) ~> Terminal(i)

\* C39 happens: the only run there was has just published its complete
\* event and is gone.
C39_Witness ==
  /\ \E i \in Items : published = Event("complete", i) /\ ~Has(i)
  /\ tasks = EmptyBag

============================================================================
